---- MODULE Spec2Model ----
(***************************************************************************)
(* A model of osc_lib/utils.py: the resource resolver (find_resource), the *)
(* convergence pollers (wait_for_status, wait_for_delete) and the          *)
(* collection sorter (sort_items, get_field).                              *)
(*                                                                         *)
(* Python strings are sequences of one-character strings, so that lower(), *)
(* isdigit(), int(), strip() and split() are computed character by         *)
(* character.  A token is a tagged value [t, v]: t = "str" with v the      *)
(* characters, t = "int" with v the canonical decimal digits, t = "none"   *)
(* for None.  Python's == between tokens is then TLA+ equality.            *)
(***************************************************************************)
EXTENDS Integers, Sequences, FiniteSets, TLC

VARIABLES
    op,          \* which function this run calls
    \* ---- find_resource ----
    name_or_id,  \* the token
    kwargs,      \* the caller's **kwargs (the filter)
    rcls,        \* manager.resource_class: "none", "plain" or "name_attr"
    fpc,         \* position in find_resource
    calls,       \* the manager calls made so far, in order, with their outcomes
    fresult,     \* what find_resource returned or raised
    \* ---- wait_for_status, wait_for_delete ----
    success_status,  \* the caller's success strings (wait_for_status)
    error_status,    \* the caller's error strings
    exception_name,  \* the caller's not-found markers (wait_for_delete)
    callback,        \* whether a progress callback is supplied
    sleep_time,      \* seconds between polls
    timeout,         \* seconds to poll for (wait_for_delete)
    total_time,      \* wait_for_delete's elapsed counter
    wpc,             \* "loop" while polling, "done" after the return or raise
    res,             \* the outcome of the latest status_f / manager.get call
    fetched,         \* wait_for_status: the raw status of every snapshot fetched
    polls,           \* number of status_f / manager.get calls made
    cbcount,         \* number of callback invocations
    cbarg,           \* the argument of the latest callback invocation
    sleeps,          \* number of time.sleep calls
    events,          \* what the latest cycle did, in order: poll, callback, sleep
    terminal,        \* the poller's state: Polling, Success, Error, Deleted, TimedOut, Raised
    retval,          \* what the poller returned or raised
    \* ---- sort_items ----
    items_in,    \* the caller's sequence (the argument items)
    sort_parts,  \* the parts the caller wrote sort_str from
    sort_str,    \* the sort specification string, or None
    items,       \* the local list that is sorted
    pending,     \* the sort keys not yet processed; the last one is next
    items_ref,   \* the list object the local name items is bound to: "caller" or "copy"
    spc,         \* position in sort_items
    sresult,     \* what sort_items returned or raised
    \* ---- get_field ----
    gitem,       \* the argument item
    gfield,      \* the argument field
    gpc,         \* position in get_field
    gresult      \* what get_field returned or raised

fvars == <<name_or_id, kwargs, rcls, fpc, calls, fresult>>
wvars == <<success_status, error_status, exception_name, callback, sleep_time, timeout,
           total_time, wpc, res, fetched, polls, cbcount, cbarg, sleeps, events, terminal,
           retval>>
svars == <<items_in, sort_parts, sort_str, items, pending, items_ref, spc, sresult>>
gvars == <<gitem, gfield, gpc, gresult>>
vars == <<op, fvars, wvars, svars, gvars>>

\* ------------------------------------------------------------------------
\* Bounds
\* ------------------------------------------------------------------------
MaxList == 2
MaxPolls == 3
MaxTimeout == 3
MaxSleep == 2
MaxItems == 3

\* ------------------------------------------------------------------------
\* Strings and tokens
\* ------------------------------------------------------------------------
Digits == {"0", "1", "2", "3", "4", "5", "6", "7", "8", "9"}

StrVal(s) == [t |-> "str", v |-> s]
IntVal(s) == [t |-> "int", v |-> s]
None == [t |-> "none", v |-> <<>>]

\* str.isdigit(): non-empty and every character a digit
isdigit(s) == Len(s) > 0 /\ \A i \in 1..Len(s) : s[i] \in Digits

RECURSIVE StripZeros(_)
StripZeros(s) == IF Len(s) > 1 /\ s[1] = "0" THEN StripZeros(Tail(s)) ELSE s

\* int(x) for an int or an all-digit string: the canonical decimal digits
int(x) == IF x.t = "int" THEN x ELSE IntVal(StripZeros(x.v))

\* isinstance(name_or_id, int) or name_or_id.isdigit()
IsNumeric(x) == x.t = "int" \/ (x.t = "str" /\ isdigit(x.v))

UpperToLower == [c \in {"A", "E", "S"} |-> CASE c = "A" -> "a" [] c = "E" -> "e" [] c = "S" -> "s"]

\* str.lower(), character by character
lower(s) == [i \in 1..Len(s) |-> IF s[i] \in DOMAIN UpperToLower THEN UpperToLower[s[i]] ELSE s[i]]

\* ------------------------------------------------------------------------
\* The manager: an opaque backend, every call of which returns or raises
\* ------------------------------------------------------------------------
Tokens == {StrVal(<<>>), StrVal(<<"a">>), StrVal(<<"1">>), StrVal(<<"0", "1">>), StrVal(<<"1", "a">>),
           IntVal(<<"1">>)}

Filters == {<<>>, <<[k |-> "domain_id", v |-> StrVal(<<"d">>)]>>}

\* resources a manager may hold: mappings with an id and a name (None when absent)
Resources == {[id |-> StrVal(<<"1">>), name |-> StrVal(<<"a">>)],
              [id |-> IntVal(<<"1">>), name |-> StrVal(<<"a">>)],
              [id |-> StrVal(<<"a">>), name |-> StrVal(<<"0", "1">>)],
              [id |-> StrVal(<<"x">>), name |-> None]}

NoResource == [id |-> None, name |-> None]

\* kind names of the failures a backend raises (AttributeError: the method is absent)
ExcNames == {"NotFound", "HTTPNotFound", "NoUniqueMatch", "AttributeError"}

Ret(r) == [k |-> "ret", res |-> r, exc |-> "", lst |-> <<>>]
Raise(e) == [k |-> "raise", res |-> NoResource, exc |-> e, lst |-> <<>>]
RetList(l) == [k |-> "ret", res |-> NoResource, exc |-> "", lst |-> l]

CallOutcomes == {Ret(r) : r \in Resources} \cup {Raise(e) : e \in ExcNames}

Lists == UNION {[1..n -> Resources] : n \in 0..MaxList}

ListOutcomes == {RetList(l) : l \in Lists} \cup {Raise(e) : e \in {"AttributeError"}}

Call(m, id, kw, out) == [m |-> m, id |-> id, kw |-> kw, out |-> out]

\* ------------------------------------------------------------------------
\* find_resource
\* ------------------------------------------------------------------------
ClassName == <<"S", "e", "r", "v", "e", "r">>

Lit(s) == [t |-> "lit", v |-> <<s>>]

\* what %s puts into a message for a token: its text, digits for an integer
Text(x) == StrVal(x.v)

\* what find_resource ends with: a resource, a backend failure that propagates
\* (exc is its kind name), or exceptions.CommandError with a formatted message
\* (err tells the two resolution errors apart)
Returned(r) == [k |-> "ret", res |-> r, exc |-> "", err |-> "", msg |-> <<>>]
Raised(e) == [k |-> "raise", res |-> NoResource, exc |-> e, err |-> "", msg |-> <<>>]
CommandError(kind, msg) ==
    [k |-> "raise", res |-> NoResource, exc |-> "CommandError", err |-> kind, msg |-> msg]
Running == [k |-> "none", res |-> NoResource, exc |-> "", err |-> "", msg |-> <<>>]

Finish(r) == /\ fpc' = "done"
             /\ fresult' = r

Goto(l) == /\ fpc' = l
           /\ UNCHANGED fresult

\* Case 1: return manager.get(name_or_id); any failure is passed over
Case1NoReturn ==
    /\ fpc = "case1"
    /\ \E out \in CallOutcomes :
         /\ calls' = Append(calls, Call("get", name_or_id, <<>>, out))
         /\ Goto("case2")
    /\ UNCHANGED <<op, name_or_id, kwargs, rcls, wvars, svars, gvars>>

Case1 ==
    /\ fpc = "case1"
    /\ \E out \in CallOutcomes :
         /\ calls' = Append(calls, Call("get", name_or_id, <<>>, out))
         /\ IF out.k = "ret" THEN Finish(Returned(out.res)) ELSE Goto("case2")
    /\ UNCHANGED <<op, name_or_id, kwargs, rcls, wvars, svars, gvars>>

\* Case 2: return manager.get(name_or_id, **kwargs); any failure is passed over
Case2 ==
    /\ fpc = "case2"
    /\ \E out \in CallOutcomes :
         /\ calls' = Append(calls, Call("get", name_or_id, kwargs, out))
         /\ IF out.k = "ret" THEN Finish(Returned(out.res)) ELSE Goto("case3")
    /\ UNCHANGED <<op, name_or_id, kwargs, rcls, wvars, svars, gvars>>

\* the except clause of case 3: NotFound and HTTPNotFound pass, the rest re-raise
Case3PassesAll(e) == TRUE

Case3Passes(e) == e = "NotFound" \/ e = "HTTPNotFound"

Case3Guard(x) == IsNumeric(x)

\* Case 3: for a numeric token, return manager.get(int(name_or_id), **kwargs)
Case3 ==
    /\ fpc = "case3"
    /\ IF Case3Guard(name_or_id)
       THEN \E out \in CallOutcomes :
              /\ calls' = Append(calls, Call("get", int(name_or_id), kwargs, out))
              /\ IF out.k = "ret" THEN Finish(Returned(out.res))
                 ELSE IF Case3Passes(out.exc) THEN Goto("case4")
                 ELSE Finish(Raised(out.exc))
       ELSE /\ UNCHANGED calls
            /\ Goto("case4")
    /\ UNCHANGED <<op, name_or_id, kwargs, rcls, wvars, svars, gvars>>

\* dict item assignment kwargs[key] = val: replaces the key's entry or adds one
SetItem(kw, key, val) ==
    IF \E i \in 1..Len(kw) : kw[i].k = key
    THEN [i \in 1..Len(kw) |-> IF kw[i].k = key THEN [k |-> key, v |-> val] ELSE kw[i]]
    ELSE Append(kw, [k |-> key, v |-> val])

\* the value of resource_class.NAME_ATTR, for a class that declares one
NAME_ATTR == "display_name"

\* the kwargs find is called with: the name field is set unless reading
\* manager.resource_class raises, which is passed over
FindKwargs ==
    CASE rcls = "name_attr" -> SetItem(kwargs, NAME_ATTR, name_or_id)
      [] rcls = "plain" -> SetItem(kwargs, "name", name_or_id)
      [] OTHER -> kwargs

\* manager.resource_class.__name__.lower()
ResourceKind == StrVal(lower(ClassName))

NotFoundMsgGeneric == <<Lit("No "), Lit("resource"), Lit(" with a name or ID of '"), Text(name_or_id),
                        Lit("' exists.")>>

NotFoundMsg == <<Lit("No "), ResourceKind, Lit(" with a name or ID of '"), Text(name_or_id),
                 Lit("' exists.")>>

NoUniqueMsg == <<Lit("More than one "), ResourceKind, Lit(" exists with the name '"),
                 Text(name_or_id), Lit("'.")>>

\* the except clause of case 4; building either message reads
\* manager.resource_class.__name__, which raises when there is no such class
FindFailedSwallowAll(e) == Goto("case5")

FindFailed(e) ==
    CASE e = "NotFound" ->
           IF rcls = "none" THEN Finish(Raised("AttributeError"))
           ELSE Finish(CommandError("NotFound", NotFoundMsg))
      [] e = "NoUniqueMatch" ->
           IF rcls = "none" THEN Finish(Raised("AttributeError"))
           ELSE Finish(CommandError("Ambiguous", NoUniqueMsg))
      [] OTHER -> Goto("case5")

\* Case 4: return manager.find(**kwargs)
Case4 ==
    /\ fpc = "case4"
    /\ \E out \in CallOutcomes :
         /\ calls' = Append(calls, Call("find", None, FindKwargs, out))
         /\ IF out.k = "ret" THEN Finish(Returned(out.res)) ELSE FindFailed(out.exc)
    /\ UNCHANGED <<op, name_or_id, kwargs, rcls, wvars, svars, gvars>>

\* resource.get('id') == name_or_id or resource.get('name') == name_or_id
Matches(r, x) == r.id = x \/ r.name = x

\* the scan of case 5: the number of matching entries and the last of them
ScanCount(l, x) == Cardinality({i \in 1..Len(l) : Matches(l[i], x)})

ScanLast(l, x) == l[CHOOSE i \in 1..Len(l) :
                      /\ Matches(l[i], x)
                      /\ \A j \in 1..Len(l) : Matches(l[j], x) => j <= i]

ScanResultFirstWins(l, x) ==
    IF ScanCount(l, x) = 0
    THEN CommandError("NotFound", <<Lit("Could not find resource "), Text(x)>>)
    ELSE Returned(ScanLast(l, x))

ScanResult(l, x) ==
    IF ScanCount(l, x) = 0
    THEN CommandError("NotFound", <<Lit("Could not find resource "), Text(x)>>)
    ELSE IF ScanCount(l, x) = 1
    THEN Returned(ScanLast(l, x))
    ELSE CommandError("Ambiguous",
                      <<Lit("More than one resource exists with the name or ID '"), Text(x),
                        Lit("'.")>>)

\* Case 5: scan manager.list(); a failure of list itself propagates
Case5 ==
    /\ fpc = "case5"
    /\ \E out \in ListOutcomes :
         /\ calls' = Append(calls, Call("list", None, <<>>, out))
         /\ IF out.k = "ret" THEN Finish(ScanResult(out.lst, name_or_id))
            ELSE Finish(Raised(out.exc))
    /\ UNCHANGED <<op, name_or_id, kwargs, rcls, wvars, svars, gvars>>

\* ------------------------------------------------------------------------
\* The pollers: wait_for_status and wait_for_delete
\* ------------------------------------------------------------------------
\* the raw status strings a snapshot may carry
Statuses == {<<"a">>, <<"A">>, <<"e">>, <<"A", "E">>}

\* the success and error lists a caller may pass
StatusSets == {{}, {<<"a">>}, {<<"A">>}, {<<"e">>}, {<<"a">>, <<"e">>}, {<<"a", "e">>, <<>>}}

\* the progress attribute: absent, None, or a number
NoProgress == [p |-> "absent", n |-> 0]
Progresses == {NoProgress, [p |-> "none", n |-> 0], [p |-> "num", n |-> 0],
               [p |-> "num", n |-> 50]}

\* a resource snapshot: the status attribute may be missing
Snapshot(hs, st, pr) == [k |-> "ret", has_status |-> hs, status |-> st, progress |-> pr,
                         exc |-> ""]
GetRaised(e) == [k |-> "raise", has_status |-> FALSE, status |-> <<>>,
                 progress |-> NoProgress, exc |-> e]
NoPoll == [k |-> "none", has_status |-> FALSE, status |-> <<>>, progress |-> NoProgress,
           exc |-> ""]

Snapshots == {Snapshot(TRUE, st, pr) : st \in Statuses, pr \in Progresses}
                 \cup {Snapshot(FALSE, <<>>, pr) : pr \in Progresses}

GetOutcomes == Snapshots \cup {GetRaised(e) : e \in {"NotFound", "HTTPNotFound", "Conflict"}}

MarkerSets == {{"NotFound"}, {"NotFound", "HTTPNotFound"}, {}}

\* getattr(res, status_field, '').lower()
StatusOf(r) == lower(IF r.has_status THEN r.status ELSE <<>>)

\* getattr(res, 'progress', None) or 0
ProgressOf(r) == IF r.progress.p = "num" THEN r.progress.n ELSE 0

WReturn(v) == [k |-> "ret", val |-> v, exc |-> ""]
WRaise(e) == [k |-> "raise", val |-> FALSE, exc |-> e]
WNone == [k |-> "none", val |-> FALSE, exc |-> ""]

WFinish(state, r) ==
    /\ wpc' = "done"
    /\ terminal' = state
    /\ retval' = r

\* the tail of a cycle that reached no terminal state: the callback, if any, is
\* called with the progress, then time.sleep(sleep_time)
KeepPollingCallbackless ==
    /\ UNCHANGED <<cbcount, cbarg>>
    /\ sleeps' = sleeps + 1
    /\ events' = <<"poll", "sleep">>
    /\ UNCHANGED <<wpc, terminal, retval>>

KeepPolling ==
    /\ IF callback
       THEN /\ cbcount' = cbcount + 1
            /\ cbarg' = ProgressOf(res')
            /\ events' = <<"poll", "callback", "sleep">>
       ELSE /\ UNCHANGED <<cbcount, cbarg>>
            /\ events' = <<"poll", "sleep">>
    /\ sleeps' = sleeps + 1
    /\ UNCHANGED <<wpc, terminal, retval>>

\* a cycle that returns or raises right after the poll
NoCallbackNoSleep ==
    /\ UNCHANGED <<cbcount, cbarg, sleeps>>
    /\ events' = <<"poll">>

\* the iteration with the two membership tests in the other order
WaitForStatusCycleErrorFirst ==
    /\ op = "wait_for_status"
    /\ wpc = "loop"
    /\ polls < MaxPolls
    /\ \E r \in Snapshots :
         /\ res' = r
         /\ polls' = polls + 1
         /\ fetched' = Append(fetched, [has |-> r.has_status, status |-> r.status])
         /\ IF StatusOf(r) \in error_status
            THEN WFinish("Error", WReturn(FALSE)) /\ NoCallbackNoSleep
            ELSE IF StatusOf(r) \in success_status
            THEN WFinish("Success", WReturn(TRUE)) /\ NoCallbackNoSleep
            ELSE KeepPolling
    /\ UNCHANGED <<success_status, error_status, exception_name, callback, sleep_time,
                   timeout, total_time>>
    /\ UNCHANGED <<op, fvars, svars, gvars>>

\* one iteration of wait_for_status's while True loop, with the return that
\* follows a break
WaitForStatusCycle ==
    /\ op = "wait_for_status"
    /\ wpc = "loop"
    /\ polls < MaxPolls
    /\ \E r \in Snapshots :
         /\ res' = r
         /\ polls' = polls + 1
         /\ fetched' = Append(fetched, [has |-> r.has_status, status |-> r.status])
         /\ IF StatusOf(r) \in success_status
            THEN WFinish("Success", WReturn(TRUE)) /\ NoCallbackNoSleep
            ELSE IF StatusOf(r) \in error_status
            THEN WFinish("Error", WReturn(FALSE)) /\ NoCallbackNoSleep
            ELSE KeepPolling
    /\ UNCHANGED <<success_status, error_status, exception_name, callback, sleep_time,
                   timeout, total_time>>
    /\ UNCHANGED <<op, fvars, svars, gvars>>

\* except Exception as ex: if type(ex).__name__ in exception_name
IsDeletedAlways(e) == TRUE

IsDeleted(e) == e \in exception_name

\* while total_time < timeout
LoopGuardInclusive == total_time <= timeout

LoopGuard == total_time < timeout

\* one iteration of wait_for_delete's loop
WaitForDeleteCycle ==
    /\ op = "wait_for_delete"
    /\ wpc = "loop"
    /\ LoopGuard
    /\ \E r \in GetOutcomes :
         /\ res' = r
         /\ polls' = polls + 1
         /\ IF r.k = "raise"
            THEN /\ IF IsDeleted(r.exc)
                    THEN WFinish("Deleted", WReturn(TRUE))
                    ELSE WFinish("Raised", WRaise(r.exc))
                 /\ NoCallbackNoSleep
                 /\ UNCHANGED total_time
            ELSE IF StatusOf(r) \in error_status
            THEN /\ WFinish("Error", WReturn(FALSE))
                 /\ NoCallbackNoSleep
                 /\ UNCHANGED total_time
            ELSE /\ KeepPolling
                 /\ total_time' = total_time + sleep_time
    /\ UNCHANGED <<success_status, error_status, exception_name, callback, sleep_time,
                   timeout, fetched>>
    /\ UNCHANGED <<op, fvars, svars, gvars>>

\* the loop condition fails: "if we got this far we've timed out", return False
WaitForDeleteTimedOut ==
    /\ op = "wait_for_delete"
    /\ wpc = "loop"
    /\ ~LoopGuard
    /\ WFinish("TimedOut", WReturn(FALSE))
    /\ UNCHANGED <<success_status, error_status, exception_name, callback, sleep_time,
                   timeout, total_time, res, fetched, polls, cbcount, cbarg, sleeps,
                   events>>
    /\ UNCHANGED <<op, fvars, svars, gvars>>

\* ------------------------------------------------------------------------
\* get_field and sort_items
\* ------------------------------------------------------------------------
Reverse(l) == [i \in 1..Len(l) |-> l[Len(l) + 1 - i]]

\* position of the first c in s, 0 when there is none
RECURSIVE IndexFrom(_, _, _)
IndexFrom(s, c, i) ==
    IF i > Len(s) THEN 0 ELSE IF s[i] = c THEN i ELSE IndexFrom(s, c, i + 1)

IndexOf(s, c) == IndexFrom(s, c, 1)

\* str.strip(): leading and trailing blanks removed
RECURSIVE LStrip(_)
LStrip(s) == IF Len(s) > 0 /\ s[1] = " " THEN LStrip(Tail(s)) ELSE s

strip(s) == Reverse(LStrip(Reverse(LStrip(s))))

\* str.split(','): the pieces between the commas, empty pieces included
RECURSIVE split(_, _)
split(s, c) ==
    LET i == IndexOf(s, c) IN
    IF i = 0 THEN <<s>>
    ELSE <<SubSeq(s, 1, i - 1)>> \o split(SubSeq(s, i + 1, Len(s)), c)

\* sort_key.split(':', 1): the text before and after the first colon
SplitOnce(s) ==
    LET i == IndexOf(s, ":") IN
    [key |-> SubSeq(s, 1, i - 1), direction |-> SubSeq(s, i + 1, Len(s))]

asc == <<"a", "s", "c">>
desc == <<"d", "e", "s", "c">>

\* an item is a dict (shape "dict", keys f) or another object (attributes attrs);
\* reading an attribute in broken raises inside the object
\* item[field]
KeyLookup(item, field) ==
    IF field \in DOMAIN item.f THEN [ok |-> TRUE, val |-> item.f[field]]
    ELSE [ok |-> FALSE, val |-> 0]

\* getattr(item, field)
AttrLookup(item, field) ==
    IF field \in DOMAIN item.attrs /\ field \notin item.broken
    THEN [ok |-> TRUE, val |-> item.attrs[field]]
    ELSE [ok |-> FALSE, val |-> 0]

\* get_field: the item's value under the field, or CommandError when the lookup
\* fails
get_field_defaulting(item, field) ==
    LET r == IF item.shape = "dict" THEN KeyLookup(item, field) ELSE AttrLookup(item, field)
    IN [ok |-> TRUE, val |-> r.val]

get_field_by_key(item, field) == KeyLookup(item, field)

get_field(item, field) ==
    IF item.shape = "dict" THEN KeyLookup(item, field) ELSE AttrLookup(item, field)

\* list.sort(key=...): a stable ascending sort, here by insertion after the last
\* element whose key is not greater
RECURSIVE InsertByKey(_, _, _)
InsertByKey(l, x, field) ==
    IF l = <<>> THEN <<x>>
    ELSE IF get_field(x, field).val < get_field(l[1], field).val
    THEN <<x>> \o l
    ELSE <<l[1]>> \o InsertByKey(Tail(l), x, field)

RECURSIVE SortAscending(_, _)
SortAscending(l, field) ==
    IF l = <<>> THEN <<>>
    ELSE InsertByKey(SortAscending(SubSeq(l, 1, Len(l) - 1), field), l[Len(l)], field)

\* list.sort(key=..., reverse=...): with reverse the list is reversed, sorted
\* and reversed again, which keeps equal elements in their original order
list_sort_unstable_reverse(l, field, reverse) ==
    IF reverse THEN Reverse(SortAscending(l, field)) ELSE SortAscending(l, field)

list_sort(l, field, reverse) ==
    IF reverse THEN Reverse(SortAscending(Reverse(l), field)) ELSE SortAscending(l, field)

SReturned(l, same) == [k |-> "ret", items |-> l, same |-> same, err |-> "", named |-> <<>>]
SRaised(e, named) == [k |-> "raise", items |-> <<>>, same |-> FALSE, err |-> e, named |-> named]
SRunning == [k |-> "none", items |-> <<>>, same |-> FALSE, err |-> "", named |-> <<>>]

SFinish(r) ==
    /\ spc' = "done"
    /\ sresult' = r

\* list(items): a new list object with the elements of l
list_same_object(l, ref) == [v |-> l, ref |-> ref]

list(l, ref) == [v |-> l, ref |-> "copy"]

\* if not sort_str: return items; else items = list(items) and the keys are split
SortStart ==
    /\ op = "sort_items"
    /\ spc = "start"
    /\ IF sort_str = None \/ sort_str.v = <<>>
       THEN /\ SFinish(SReturned(items_in, TRUE))
            /\ UNCHANGED <<items, pending, items_ref>>
       ELSE /\ items' = list(items_in, items_ref).v
            /\ items_ref' = list(items_in, items_ref).ref
            /\ pending' = split(strip(sort_str.v), ",")
            /\ spc' = "loop"
            /\ UNCHANGED sresult
    /\ UNCHANGED <<items_in, sort_parts, sort_str>>
    /\ UNCHANGED <<op, fvars, wvars, gvars>>

\* the checks made on a key that contains a colon
KeyErrorLenient(sort_key) ==
    IF IndexOf(sort_key, ":") = 0 THEN ""
    ELSE IF SplitOnce(sort_key).key = <<>> THEN "InvalidSortKey"
    ELSE ""

KeyError(sort_key) ==
    IF IndexOf(sort_key, ":") = 0 THEN ""
    ELSE IF SplitOnce(sort_key).key = <<>> THEN "InvalidSortKey"
    ELSE IF SplitOnce(sort_key).direction \notin {asc, desc} THEN "InvalidSortDirection"
    ELSE ""

KeyName(sort_key) ==
    IF IndexOf(sort_key, ":") = 0 THEN sort_key ELSE SplitOnce(sort_key).key

KeyReverse(sort_key) ==
    IndexOf(sort_key, ":") # 0 /\ SplitOnce(sort_key).direction = desc

\* the keys are taken for sort_key in reversed(sort_keys)
NextKeyForward == Head(pending)

NextKey == pending[Len(pending)]

RestKeysForward == Tail(pending)

RestKeys == SubSeq(pending, 1, Len(pending) - 1)

\* one iteration of the for loop: parse and check the key, then one sort pass;
\* items.sort() sorts in place the list object that items is bound to
SortPass ==
    /\ op = "sort_items"
    /\ spc = "loop"
    /\ pending # <<>>
    /\ LET sort_key == NextKey
           field == KeyName(sort_key) IN
       IF KeyError(sort_key) = "InvalidSortKey"
       THEN /\ SFinish(SRaised("InvalidSortKey", <<>>))
            /\ UNCHANGED <<items, pending, items_in>>
       ELSE IF KeyError(sort_key) = "InvalidSortDirection"
       THEN /\ SFinish(SRaised("InvalidSortDirection",
                               <<IF SplitOnce(sort_key).direction = <<>>
                                 THEN <<"<empty string>">>
                                 ELSE SplitOnce(sort_key).direction,
                                 field>>))
            /\ UNCHANGED <<items, pending, items_in>>
       ELSE IF \E i \in 1..Len(items) : ~get_field(items[i], field).ok
       THEN /\ SFinish(SRaised("FieldNotFound", <<field>>))
            /\ UNCHANGED <<items, pending, items_in>>
       ELSE /\ items' = list_sort(items, field, KeyReverse(sort_key))
            /\ items_in' = IF items_ref = "caller" THEN items' ELSE items_in
            /\ pending' = RestKeys
            /\ UNCHANGED <<spc, sresult>>
    /\ UNCHANGED <<sort_parts, sort_str, items_ref>>
    /\ UNCHANGED <<op, fvars, wvars, gvars>>

\* the loop is over: return items
SortReturn ==
    /\ op = "sort_items"
    /\ spc = "loop"
    /\ pending = <<>>
    /\ SFinish(SReturned(items, FALSE))
    /\ UNCHANGED <<items_in, sort_parts, sort_str, items, pending, items_ref>>
    /\ UNCHANGED <<op, fvars, wvars, gvars>>

\* ---- the inputs of sort_items ----
FieldA == <<"a">>
FieldB == <<"b">>

Fields(a, b) == (FieldA :> a) @@ (FieldB :> b)

\* the fields an item may carry: a and b, a alone, or b alone
ItemFields == {Fields(a, b) : a \in 0..1, b \in 0..1} \cup {(FieldA :> 0), (FieldB :> 0)}

\* the example of the specification: [{a:1,b:1},{a:1,b:2},{a:0,b:5}]
ExampleFields == <<Fields(1, 1), Fields(1, 2), Fields(0, 5)>>

\* a sequence of items; uid tells apart items that carry equal fields
DictItem(uid, fs) == [uid |-> uid, shape |-> "dict", f |-> fs, attrs |-> <<>>, broken |-> {}]

WithUids(fs) == [i \in 1..Len(fs) |-> DictItem(i, fs[i])]

ItemLists == {WithUids(fs) : fs \in UNION {[1..n -> ItemFields] : n \in 0..MaxItems}}
                 \cup {WithUids(ExampleFields)}

Part(key, colon, direction) == [key |-> key, colon |-> colon, direction |-> direction]

GoodParts == {Part(k, TRUE, d) : k \in {FieldA, FieldB}, d \in {asc, desc}}

Parts == GoodParts \cup {Part(k, FALSE, <<>>) : k \in {FieldA, FieldB, <<>>}}
             \cup {Part(<<>>, TRUE, asc), Part(FieldA, TRUE, <<"u", "p">>),
                   Part(FieldA, TRUE, <<>>)}

PartLists == {<<>>} \cup {<<p>> : p \in Parts} \cup {<<p, q>> : p \in Parts, q \in Parts}
                 \cup {<<p, q, r>> : p \in {Part(FieldA, TRUE, asc)},
                                     q \in GoodParts,
                                     r \in {Part(FieldA, TRUE, desc), Part(FieldB, TRUE, asc),
                                            Part(<<>>, TRUE, asc)}}

\* the text of a specification: key[:direction] joined by commas
RenderPart(p) == IF p.colon THEN p.key \o <<":">> \o p.direction ELSE p.key

RECURSIVE Render(_)
Render(ps) ==
    IF ps = <<>> THEN <<>>
    ELSE IF Len(ps) = 1 THEN RenderPart(ps[1])
    ELSE RenderPart(ps[1]) \o <<",">> \o Render(Tail(ps))

SortIdle ==
    /\ items_in = <<>>
    /\ sort_parts = <<>>
    /\ sort_str = None
    /\ items = <<>>
    /\ pending = <<>>
    /\ items_ref = "caller"
    /\ spc = "idle"
    /\ sresult = SRunning

\* ---- the inputs of get_field ----
\* the keys or attributes an item may carry, with their values
FieldMaps == UNION {[d -> 0..1] : d \in SUBSET {FieldA, FieldB}}

\* dicts, which besides their keys have attributes of their own, and objects
\* some of whose attributes may raise when read
FieldItems == {[uid |-> 0, shape |-> "dict", f |-> m, attrs |-> n, broken |-> {}]
                   : m \in FieldMaps, n \in {<<>>, (FieldA :> 1)}}
                  \cup {[uid |-> 0, shape |-> "object", f |-> <<>>, attrs |-> m, broken |-> b]
                            : m \in FieldMaps, b \in {{}, {FieldA}}}

GRunning == [k |-> "none", val |-> 0, err |-> "", named |-> <<>>]
GReturned(v) == [k |-> "ret", val |-> v, err |-> "", named |-> <<>>]
GRaised(e, named) == [k |-> "raise", val |-> 0, err |-> e, named |-> named]

GetFieldIdle ==
    /\ gitem = DictItem(0, <<>>)
    /\ gfield = <<>>
    /\ gpc = "idle"
    /\ gresult = GRunning

FindIdle ==
    /\ name_or_id = None
    /\ kwargs = <<>>
    /\ rcls = "none"
    /\ fpc = "idle"
    /\ calls = <<>>
    /\ fresult = Running

WaitStart ==
    /\ total_time = 0
    /\ wpc = "loop"
    /\ res = NoPoll
    /\ fetched = <<>>
    /\ polls = 0
    /\ cbcount = 0
    /\ cbarg = 0
    /\ sleeps = 0
    /\ events = <<>>
    /\ terminal = "Polling"
    /\ retval = WNone

WaitIdle ==
    /\ success_status = {}
    /\ error_status = {}
    /\ exception_name = {}
    /\ callback = FALSE
    /\ sleep_time = 0
    /\ timeout = 0
    /\ total_time = 0
    /\ wpc = "idle"
    /\ res = NoPoll
    /\ fetched = <<>>
    /\ polls = 0
    /\ cbcount = 0
    /\ cbarg = 0
    /\ sleeps = 0
    /\ events = <<>>
    /\ terminal = "Polling"
    /\ retval = WNone

WaitForStatusInit ==
    /\ op = "wait_for_status"
    /\ FindIdle
    /\ SortIdle
    /\ GetFieldIdle
    /\ success_status \in StatusSets
    /\ error_status \in StatusSets
    /\ exception_name = {}
    /\ callback \in BOOLEAN
    /\ sleep_time \in {0, MaxSleep}
    /\ timeout = 0
    /\ WaitStart

WaitForDeleteInit ==
    /\ op = "wait_for_delete"
    /\ FindIdle
    /\ SortIdle
    /\ GetFieldIdle
    /\ success_status = {}
    /\ error_status \in StatusSets
    /\ exception_name \in MarkerSets
    /\ callback \in BOOLEAN
    /\ sleep_time \in 1..MaxSleep
    /\ timeout \in -1..MaxTimeout
    /\ WaitStart

PollInit == WaitForStatusInit \/ WaitForDeleteInit

PollNext == WaitForStatusCycle \/ WaitForDeleteCycle \/ WaitForDeleteTimedOut

PollSpec == PollInit /\ [][PollNext]_vars

\* ------------------------------------------------------------------------
\* Claims about the pollers (checked under PollSpec)
\* ------------------------------------------------------------------------
\* membership that ignores letter case on both sides
InIgnoringCase(st, set) == \E m \in set : lower(m) = lower(st)

FetchedStatus(i) == IF fetched[i].has THEN fetched[i].status ELSE <<>>

TerminalIgnoringCase(i) ==
    \/ InIgnoringCase(FetchedStatus(i), success_status)
    \/ InIgnoringCase(FetchedStatus(i), error_status)

\* C2: wait_for_status returns true at the first cycle whose fetched status is,
\* ignoring letter case, in the success set, and false at the first whose status
\* is in the error set, and status_f is not called after that cycle; for every
\* success and error set, whatever the case of their members.
C2_FirstTerminalCycle ==
    op = "wait_for_status" =>
        \A i \in 1..Len(fetched) :
            (TerminalIgnoringCase(i) /\ \A j \in 1..(i - 1) : ~TerminalIgnoringCase(j)) =>
                /\ wpc = "done"
                /\ polls = i
                /\ Len(fetched) = i
                /\ IF InIgnoringCase(FetchedStatus(i), success_status)
                   THEN retval = WReturn(TRUE)
                   ELSE retval = WReturn(FALSE)

\* C2 for callers whose success and error strings are all lower case: the part
\* of the claim the code keeps.
C2_LowerCaseSets ==
    (\A m \in success_status \cup error_status : lower(m) = m) => C2_FirstTerminalCycle

\* C14: wait_for_status has no timeout and returns exactly when the backend has
\* reached a terminal status: at every moment it has returned if and only if some
\* fetch reported a status that is, ignoring letter case, in the success set or
\* in the error set, whatever the interval.
C14_ReturnsIffTerminal ==
    op = "wait_for_status" =>
        (wpc = "done" <=> \E i \in 1..Len(fetched) : TerminalIgnoringCase(i))

\* C14 for callers whose success and error strings are all lower case: the part
\* of the claim the code keeps.
C14_LowerCaseSets ==
    (\A m \in success_status \cup error_status : lower(m) = m) => C14_ReturnsIffTerminal

\* C19: in wait_for_status the success set takes precedence: a cycle whose
\* lower-cased status is in both the success set and the error set ends the call
\* with true, never false.
C19_SuccessFirst ==
    (/\ op = "wait_for_status"
     /\ polls > 0
     /\ StatusOf(res) \in success_status \cap error_status) =>
        /\ wpc = "done"
        /\ terminal = "Success"
        /\ retval = WReturn(TRUE)

C19_Witness ==
    /\ op = "wait_for_status"
    /\ polls > 1
    /\ StatusOf(res) \in success_status \cap error_status
    /\ res.has_status /\ res.status # StatusOf(res)
    /\ retval = WReturn(TRUE)

\* C3: every poll of wait_for_delete is classified: a failure whose kind name is
\* a not-found marker ends it with true (Deleted); any other failure is re-raised
\* as it is; a snapshot whose lower-cased status is in the error set ends it with
\* false (Error); in each case at once, with no callback, sleep or further get.
C3_DeleteClassifies ==
    (op = "wait_for_delete" /\ polls > 0) =>
        LET stopped == /\ wpc = "done"
                       /\ events = <<"poll">>
                       /\ sleeps = polls - 1
                       /\ cbcount = (IF callback THEN polls - 1 ELSE 0)
                       /\ total_time = (polls - 1) * sleep_time IN
        CASE res.k = "raise" /\ res.exc \in exception_name ->
               stopped /\ retval = WReturn(TRUE) /\ terminal = "Deleted"
          [] res.k = "raise" /\ res.exc \notin exception_name ->
               stopped /\ retval = WRaise(res.exc)
          [] res.k = "ret" /\ lower(IF res.has_status THEN res.status ELSE <<>>)
                                 \in error_status ->
               stopped /\ retval = WReturn(FALSE) /\ terminal = "Error"
          [] OTHER -> terminal \in {"Polling", "TimedOut"}

C3_Witness ==
    /\ op = "wait_for_delete"
    /\ polls = 2
    /\ res = GetRaised("Conflict")
    /\ retval = WRaise("Conflict")
    /\ exception_name = {"NotFound", "HTTPNotFound"}

\* C4: wait_for_delete polls only while elapsed < timeout: against a backend
\* that only returns snapshots with no error status it calls manager.get
\* ceil(timeout / interval) times, none when timeout <= 0, and then returns
\* false (TimedOut) without raising; it never calls get more often than that.
C4_Ceil == IF timeout <= 0 THEN 0 ELSE (timeout + sleep_time - 1) \div sleep_time

C4_TimeoutBound ==
    op = "wait_for_delete" =>
        /\ polls <= C4_Ceil
        /\ (wpc = "done" /\ (polls = 0 \/ terminal = "TimedOut")) =>
              /\ polls = C4_Ceil
              /\ retval = WReturn(FALSE)
        /\ (wpc = "done" /\ polls > 0 /\ res.k = "ret"
               /\ lower(IF res.has_status THEN res.status ELSE <<>>) \notin error_status) =>
              /\ terminal = "TimedOut"
              /\ polls = C4_Ceil
              /\ retval = WReturn(FALSE)

C4_Witness ==
    /\ op = "wait_for_delete"
    /\ timeout = 3
    /\ sleep_time = 2
    /\ terminal = "TimedOut"
    /\ polls = 2
    /\ retval = WReturn(FALSE)

\* C5: in both pollers a supplied callback is invoked once in every cycle that
\* reaches no terminal state, after the poll and before the sleep, with the
\* snapshot's progress or 0 when that is absent or falsy, and not at all in a
\* cycle that reaches Success, Error or Deleted (or re-raises), nor afterwards.
C5_EndedInCycle == terminal \in {"Success", "Error", "Deleted", "Raised"}

C5_CallbackPerCycle ==
    op \in {"wait_for_status", "wait_for_delete"} =>
        LET nonterminal == IF C5_EndedInCycle THEN polls - 1 ELSE polls IN
        /\ cbcount = (IF callback THEN nonterminal ELSE 0)
        /\ C5_EndedInCycle => events = <<"poll">>
        /\ (~C5_EndedInCycle /\ polls > 0) =>
              IF callback
              THEN /\ events = <<"poll", "callback", "sleep">>
                   /\ cbarg = (IF res.progress.p = "num" THEN res.progress.n ELSE 0)
              ELSE events = <<"poll", "sleep">>

C5_Witness ==
    /\ op = "wait_for_status"
    /\ callback
    /\ polls = 2
    /\ cbcount = 2
    /\ res.progress.p = "none"
    /\ cbarg = 0

C5_WitnessDelete ==
    /\ op = "wait_for_delete"
    /\ callback
    /\ polls = 3
    /\ cbcount = 2
    /\ terminal = "Deleted"

SortInit ==
    /\ op = "sort_items"
    /\ FindIdle
    /\ WaitIdle
    /\ GetFieldIdle
    /\ items_in \in ItemLists
    /\ sort_parts \in PartLists
    /\ \/ sort_str = StrVal(Render(sort_parts))
       \/ sort_parts = <<>> /\ sort_str = None
       \/ Len(sort_parts) = 1 /\ sort_str = StrVal(<<" ">> \o Render(sort_parts) \o <<" ">>)
    /\ items = <<>>
    /\ pending = <<>>
    /\ items_ref = "caller"
    /\ spc = "start"
    /\ sresult = SRunning

SortNext == SortStart \/ SortPass \/ SortReturn

SortSpec == SortInit /\ [][SortNext]_vars

\* ------------------------------------------------------------------------
\* Claims about sort_items (checked under SortSpec)
\* ------------------------------------------------------------------------
\* C6: for a well-formed specification k1:d1,...,kn:dn whose fields all items
\* carry, sort_items returns a permutation of the input ordered by k1 in
\* direction d1, ties broken by k2 in d2, and so on; items equal on every listed
\* key keep their input order, also under desc. The specification's example
\* with a:asc,b:desc yields [{a:0,b:5},{a:1,b:2},{a:1,b:1}].
C6_WellFormed ==
    /\ sort_parts # <<>>
    /\ \A i \in 1..Len(sort_parts) : sort_parts[i] \in GoodParts
    /\ \A i \in 1..Len(sort_parts), j \in 1..Len(items_in) :
           sort_parts[i].key \in DOMAIN items_in[j].f

\* x comes before y by the key at position i on
RECURSIVE C6_Before(_, _, _)
C6_Before(x, y, i) ==
    IF i > Len(sort_parts) THEN x.uid < y.uid
    ELSE LET k == sort_parts[i].key IN
         IF x.f[k] = y.f[k] THEN C6_Before(x, y, i + 1)
         ELSE IF sort_parts[i].direction = asc THEN x.f[k] < y.f[k] ELSE x.f[k] > y.f[k]

C6_IsPermutation(l, m) ==
    /\ Len(l) = Len(m)
    /\ \A i \in 1..Len(m) : \E j \in 1..Len(l) : l[j] = m[i]

C6_Example ==
    /\ items_in = WithUids(ExampleFields)
    /\ sort_parts = <<Part(FieldA, TRUE, asc), Part(FieldB, TRUE, desc)>>

C6_MultiKeyStable ==
    (op = "sort_items" /\ spc = "done" /\ C6_WellFormed) =>
        /\ sresult.k = "ret"
        /\ C6_IsPermutation(sresult.items, items_in)
        /\ \A i \in 1..Len(sresult.items), j \in 1..Len(sresult.items) :
               i < j => C6_Before(sresult.items[i], sresult.items[j], 1)
        /\ C6_Example =>
               sresult.items = <<DictItem(3, Fields(0, 5)), DictItem(2, Fields(1, 2)),
                                 DictItem(1, Fields(1, 1))>>

C6_Witness ==
    /\ spc = "done"
    /\ C6_Example
    /\ sort_str = StrVal(<<"a", ":", "a", "s", "c", ",", "b", ":", "d", "e", "s", "c">>)
    /\ sresult.k = "ret"
    /\ sresult.items[1].uid = 3

C6_WitnessStableDesc ==
    /\ spc = "done"
    /\ sort_parts = <<Part(FieldA, TRUE, desc)>>
    /\ Len(items_in) = 3
    /\ items_in[1].f = items_in[2].f
    /\ items_in[3].f[FieldA] > items_in[1].f[FieldA]
    /\ sresult.k = "ret"
    /\ sresult.items[2].uid = 1
    /\ sresult.items[3].uid = 2

\* ------------------------------------------------------------------------
\* find_resource: initial states and specification
\* ------------------------------------------------------------------------
FindInit ==
    /\ op = "find_resource"
    /\ WaitIdle
    /\ SortIdle
    /\ GetFieldIdle
    /\ name_or_id \in Tokens
    /\ kwargs \in Filters
    /\ rcls \in {"none", "plain", "name_attr"}
    /\ fpc = "case1"
    /\ calls = <<>>
    /\ fresult = Running

FindNext == Case1 \/ Case2 \/ Case3 \/ Case4 \/ Case5

FindSpec == FindInit /\ [][FindNext]_vars

\* ------------------------------------------------------------------------
\* Claims about find_resource (checked under FindSpec)
\* ------------------------------------------------------------------------
FindCalls == {i \in 1..Len(calls) : calls[i].m = "find"}
ListCalls == {i \in 1..Len(calls) : calls[i].m = "list"}
GetCalls == {i \in 1..Len(calls) : calls[i].m = "get"}

\* C1: when the first call, manager.get(token), returns, find_resource is done,
\* its result is the resource that call returned, and that call is the only
\* manager call ever made (no second get, no find, no list).
C1_DirectGetWins ==
    (Len(calls) >= 1 /\ calls[1].out.k = "ret") =>
        /\ calls[1].m = "get" /\ calls[1].id = name_or_id /\ calls[1].kw = <<>>
        /\ fpc = "done"
        /\ fresult = Returned(calls[1].out.res)
        /\ Len(calls) = 1

C1_Witness ==
    /\ fpc = "done"
    /\ Len(calls) = 1
    /\ calls[1].out.k = "ret"
    /\ fresult.k = "ret"

\* C7: the outcome of manager.find decides: a return is the result; a failure
\* named NotFound ends find_resource with the NotFound resolution error and a
\* failure named NoUniqueMatch with the Ambiguous one, list never being called;
\* any other failure is swallowed and the chain goes on to manager.list.
C7_FindDecides ==
    \A i \in FindCalls :
        LET out == calls[i].out IN
        CASE out.k = "ret" ->
               fpc = "done" /\ fresult = Returned(out.res) /\ Len(calls) = i
          [] out.k = "raise" /\ out.exc = "NotFound" ->
               /\ fpc = "done" /\ Len(calls) = i
               /\ fresult.exc = "CommandError" /\ fresult.err = "NotFound"
          [] out.k = "raise" /\ out.exc = "NoUniqueMatch" ->
               /\ fpc = "done" /\ Len(calls) = i
               /\ fresult.exc = "CommandError" /\ fresult.err = "Ambiguous"
          [] OTHER ->
               \/ fpc = "case5" /\ Len(calls) = i /\ fresult = Running
               \/ Len(calls) = i + 1 /\ calls[i + 1].m = "list"

\* C7 for managers that have a resource_class: the part of the claim the code
\* keeps.
C7_FindDecidesWithClass == rcls # "none" => C7_FindDecides

C7_Witness ==
    /\ rcls # "none"
    /\ \E i \in FindCalls : calls[i].out.k = "raise" /\ calls[i].out.exc = "NotFound"
    /\ fresult.err = "NotFound"

\* C8: once manager.list() has returned, the number of its entries whose id or
\* whose name equals the token decides: none gives the NotFound resolution
\* error, exactly one gives that entry, two or more give the Ambiguous
\* resolution error (so also for two name matches on a manager without find).
C8_Matching(l) == {j \in 1..Len(l) : l[j].id = name_or_id \/ l[j].name = name_or_id}

C8_ScanByCount ==
    \A i \in ListCalls :
        calls[i].out.k = "ret" =>
            LET l == calls[i].out.lst
                n == Cardinality(C8_Matching(l)) IN
            /\ fpc = "done" /\ Len(calls) = i
            /\ n = 0 => fresult.exc = "CommandError" /\ fresult.err = "NotFound"
            /\ n = 1 => \E j \in C8_Matching(l) : fresult = Returned(l[j])
            /\ n >= 2 => fresult.exc = "CommandError" /\ fresult.err = "Ambiguous"

C8_Witness ==
    /\ \E i \in FindCalls : calls[i].out.exc = "AttributeError"
    /\ \E i \in ListCalls :
          /\ calls[i].out.k = "ret"
          /\ Cardinality({j \in 1..Len(calls[i].out.lst) :
                            calls[i].out.lst[j].name = name_or_id}) >= 2
    /\ fresult.err = "Ambiguous"

\* C9: once both plain gets have failed, the third strategy calls
\* manager.get(int(token), **filter) exactly when the token is an integer or a
\* string of digits; a return is the result, a NotFound or HTTPNotFound failure
\* is ignored and find comes next, any other failure is re-raised with no find
\* and no list; for any other token the strategy calls nothing, raises nothing.
C9_Numeric ==
    \/ name_or_id.t = "int"
    \/ /\ name_or_id.t = "str"
       /\ name_or_id.v # <<>>
       /\ \A i \in 1..Len(name_or_id.v) : name_or_id.v[i] \in Digits

C9_Case3Done ==
    /\ Len(calls) >= 2
    /\ calls[1].out.k = "raise"
    /\ calls[2].out.k = "raise"
    /\ fpc # "case3"

C9_FindIsNext(n) ==
    \/ fpc = "case4" /\ Len(calls) = n /\ fresult = Running
    \/ Len(calls) > n /\ calls[n + 1].m = "find"

C9_IntegerGet ==
    C9_Case3Done =>
        IF C9_Numeric
        THEN /\ Len(calls) >= 3
             /\ calls[3].m = "get"
             /\ calls[3].id = int(name_or_id)
             /\ calls[3].kw = kwargs
             /\ LET out == calls[3].out IN
                CASE out.k = "ret" ->
                       fpc = "done" /\ fresult = Returned(out.res) /\ Len(calls) = 3
                  [] out.k = "raise" /\ out.exc \in {"NotFound", "HTTPNotFound"} ->
                       C9_FindIsNext(3)
                  [] OTHER ->
                       fpc = "done" /\ fresult = Raised(out.exc) /\ Len(calls) = 3
        ELSE /\ Cardinality(GetCalls) = 2
             /\ C9_FindIsNext(2)

C9_Witness ==
    /\ C9_Case3Done
    /\ name_or_id = StrVal(<<"0", "1">>)
    /\ calls[3].id = IntVal(<<"1">>)
    /\ calls[3].out.exc = "AttributeError"
    /\ fresult = Raised("AttributeError")

\* C10: on a manager whose get and find fail on every call with a failure that
\* is neither not-found nor ambiguous, and whose list works, find_resource
\* ends, for any token, with the unique list entry whose id or name equals the
\* token, and never with the backend failure of get or find.
C10_Degraded ==
    /\ \A i \in GetCalls \cup FindCalls :
          /\ calls[i].out.k = "raise"
          /\ calls[i].out.exc \notin {"NotFound", "HTTPNotFound", "NoUniqueMatch"}
    /\ \A i \in ListCalls : calls[i].out.k = "ret"

C10_DegradedResolves ==
    (fpc = "done" /\ C10_Degraded) =>
        /\ fresult.exc \in {"", "CommandError"}
        /\ \E i \in ListCalls :
              LET l == calls[i].out.lst IN
              Cardinality(C8_Matching(l)) = 1 =>
                  \E j \in C8_Matching(l) : fresult = Returned(l[j])

\* C10 for tokens that are not numeric: the part of the claim the code keeps.
C10_NonNumericResolves == ~IsNumeric(name_or_id) => C10_DegradedResolves

\* C11: for a token that matches nothing (every get fails as not-found, find
\* fails as not-found or is unsupported, list has no entry whose id or name is
\* the token) find_resource returns no resource and fails with the NotFound
\* resolution error, whose message names the token.
C11_NoMatch ==
    /\ \A i \in GetCalls :
          calls[i].out.k = "raise" /\ calls[i].out.exc \in {"NotFound", "HTTPNotFound"}
    /\ \A i \in FindCalls :
          calls[i].out.k = "raise" /\ calls[i].out.exc \in {"NotFound", "AttributeError"}
    /\ \A i \in ListCalls :
          calls[i].out.k = "ret" /\ C8_Matching(calls[i].out.lst) = {}

C11_NoMatchNotFound ==
    (fpc = "done" /\ C11_NoMatch) =>
        /\ fresult.exc = "CommandError"
        /\ fresult.err = "NotFound"
        /\ \E j \in 1..Len(fresult.msg) : fresult.msg[j] = StrVal(name_or_id.v)

\* C11 for managers that have a resource_class: the part of the claim the code
\* keeps.
C11_NoMatchNotFoundWithClass == rcls # "none" => C11_NoMatchNotFound

\* C12: every NotFound or Ambiguous resolution error of find_resource, from the
\* name-based find or from the linear scan, has a message that names the
\* resource kind and the token.
C12_NamesToken == \E j \in 1..Len(fresult.msg) : fresult.msg[j] = StrVal(name_or_id.v)

C12_NamesKind == \E j \in 1..Len(fresult.msg) : fresult.msg[j] = StrVal(lower(ClassName))

C12_MessageNamesKindAndToken ==
    (fpc = "done" /\ fresult.exc = "CommandError") => C12_NamesToken /\ C12_NamesKind

\* C12 as amended: every such error names the token; those of the name-based
\* find also name the resource kind, those of the linear scan do not.
C12_MessageNamesToken ==
    (fpc = "done" /\ fresult.exc = "CommandError") =>
        /\ fresult.err \in {"NotFound", "Ambiguous"}
        /\ C12_NamesToken
        /\ calls[Len(calls)].m \in {"find", "list"}
        /\ C12_NamesKind <=> calls[Len(calls)].m = "find"

C12_Witness ==
    /\ fpc = "done"
    /\ fresult.exc = "CommandError"
    /\ fresult.err = "NotFound"
    /\ calls[Len(calls)].m = "find"
    /\ C12_NamesToken
    /\ C12_NamesKind

C12_WitnessScan ==
    /\ fpc = "done"
    /\ fresult.err = "Ambiguous"
    /\ calls[Len(calls)].m = "list"
    /\ C12_NamesToken
    /\ ~C12_NamesKind

\* C17: the manager calls of one find_resource are a prefix of get(token),
\* get(token, **filter), get(int(token), **filter) for a numeric token only,
\* find(**filter with the name field set to the token), list(): each once, in
\* this order, a later one only after the earlier ones failed, and the first
\* get or find that returns ends the chain with its resource.
C17_NameField == IF rcls = "name_attr" THEN NAME_ATTR ELSE "name"

C17_Merged ==
    SelectSeq(kwargs, LAMBDA e : e.k # C17_NameField)
        \o <<[k |-> C17_NameField, v |-> name_or_id]>>

C17_Chain ==
    <<[m |-> "get", id |-> name_or_id, kw |-> <<>>],
      [m |-> "get", id |-> name_or_id, kw |-> kwargs]>>
    \o (IF C9_Numeric THEN <<[m |-> "get", id |-> int(name_or_id), kw |-> kwargs]>> ELSE <<>>)
    \o <<[m |-> "find", id |-> None, kw |-> C17_Merged],
         [m |-> "list", id |-> None, kw |-> <<>>]>>

C17_ChainOrder ==
    /\ Len(calls) <= Len(C17_Chain)
    /\ \A i \in 1..Len(calls) :
          /\ calls[i].m = C17_Chain[i].m
          /\ calls[i].id = C17_Chain[i].id
          /\ calls[i].kw = C17_Chain[i].kw
          /\ i < Len(calls) => calls[i].out.k = "raise"
          /\ (calls[i].m # "list" /\ calls[i].out.k = "ret") =>
                fpc = "done" /\ fresult = Returned(calls[i].out.res)

\* C17 for managers that have a resource_class: the part of the claim the code
\* keeps.
C17_ChainOrderWithClass == rcls # "none" => C17_ChainOrder

\* ------------------------------------------------------------------------
\* get_field called on its own
\* ------------------------------------------------------------------------
\* the whole of get_field: the lookup, and CommandError(msg % field) when it raises
GetField ==
    /\ op = "get_field"
    /\ gpc = "start"
    /\ gpc' = "done"
    /\ gresult' = IF get_field(gitem, gfield).ok
                  THEN GReturned(get_field(gitem, gfield).val)
                  ELSE GRaised("FieldNotFound", <<gfield>>)
    /\ UNCHANGED <<gitem, gfield>>
    /\ UNCHANGED <<op, fvars, wvars, svars>>

GetFieldInit ==
    /\ op = "get_field"
    /\ FindIdle
    /\ WaitIdle
    /\ SortIdle
    /\ gitem \in FieldItems
    /\ gfield \in {FieldA, FieldB}
    /\ gpc = "start"
    /\ gresult = GRunning

GetFieldNext == GetField

GetFieldSpec == GetFieldInit /\ [][GetFieldNext]_vars

\* ------------------------------------------------------------------------
\* Claims about get_field (checked under GetFieldSpec)
\* ------------------------------------------------------------------------
\* C16: get_field(item, field) returns the value stored under key field when the
\* item is a mapping and the value of the attribute field otherwise; when that
\* lookup fails, for a missing key, a missing attribute or an attribute whose
\* read raises, it raises FieldNotFound carrying the field name, and it never
\* returns a default value.
C16_Found ==
    IF gitem.shape = "dict" THEN gfield \in DOMAIN gitem.f
    ELSE gfield \in DOMAIN gitem.attrs /\ gfield \notin gitem.broken

C16_LookupOrFieldNotFound ==
    (op = "get_field" /\ gpc = "done") =>
        IF C16_Found
        THEN gresult = GReturned(IF gitem.shape = "dict" THEN gitem.f[gfield]
                                 ELSE gitem.attrs[gfield])
        ELSE /\ gresult.k = "raise"
             /\ gresult.err = "FieldNotFound"
             /\ gresult.named = <<gfield>>

C16_Witness ==
    /\ op = "get_field"
    /\ gpc = "done"
    /\ gitem.shape = "object"
    /\ gfield \in DOMAIN gitem.attrs
    /\ gresult = GReturned(1)

C16_WitnessDictRaises ==
    /\ op = "get_field"
    /\ gpc = "done"
    /\ gitem.shape = "dict"
    /\ gfield \in DOMAIN gitem.attrs
    /\ gresult.err = "FieldNotFound"

C16_WitnessBrokenAttribute ==
    /\ op = "get_field"
    /\ gpc = "done"
    /\ gfield \in gitem.broken
    /\ gfield \in DOMAIN gitem.attrs
    /\ gresult.err = "FieldNotFound"

\* ------------------------------------------------------------------------
\* Further claims about sort_items (checked under SortSpec)
\* ------------------------------------------------------------------------
\* the components with an explicit empty key or an explicit direction other
\* than asc and desc
C13_Faulty ==
    {i \in 1..Len(sort_parts) :
        /\ sort_parts[i].colon
        /\ sort_parts[i].key = <<>> \/ sort_parts[i].direction \notin {asc, desc}}

C13_FaultOf(i) ==
    IF sort_parts[i].key = <<>> THEN "InvalidSortKey" ELSE "InvalidSortDirection"

\* the error of component i is the one raised
C13_Raises(i) ==
    /\ sresult.k = "raise"
    /\ sresult.err = C13_FaultOf(i)
    /\ sresult.err = "InvalidSortDirection" => sresult.named[2] = sort_parts[i].key

\* the components some item has no field for
C13_Lacking ==
    {i \in 1..Len(sort_parts) :
        \E j \in 1..Len(items_in) : sort_parts[i].key \notin DOMAIN items_in[j].f}

C13_Max(S) == CHOOSE i \in S : \A j \in S : j <= i

\* C13 (as claimed): whenever some component of the specification is faulty, at
\* whatever position, sort_items raises InvalidSortKey or InvalidSortDirection
\* (this one naming the key) for a faulty component, and returns no sequence.
C13_FaultAtAnyPosition ==
    (op = "sort_items" /\ spc = "done" /\ C13_Faulty # {}) =>
        \E i \in C13_Faulty : C13_Raises(i)

\* C13 (amended): whenever some component is faulty, sort_items returns no
\* sequence; it raises the error of the rightmost faulty component, unless some
\* item lacks the field of a component to the right of it, in which case it
\* raises FieldNotFound for the rightmost such field.
C13_RightmostFaultOrMissingField ==
    (op = "sort_items" /\ spc = "done" /\ C13_Faulty # {}) =>
        LET r == C13_Max(C13_Faulty)
            after == {i \in C13_Lacking : i > r} IN
        /\ sresult.k = "raise"
        /\ IF after = {} THEN C13_Raises(r)
           ELSE /\ sresult.err = "FieldNotFound"
                /\ sresult.named = <<sort_parts[C13_Max(after)].key>>

C13_Witness ==
    /\ op = "sort_items"
    /\ spc = "done"
    /\ Len(sort_parts) = 2
    /\ C13_Faulty = {1}
    /\ Len(items_in) = 2
    /\ items # items_in
    /\ sresult.err = "InvalidSortDirection"
    /\ sresult.named = <<<<"u", "p">>, FieldA>>

C13_WitnessMissingFieldFirst ==
    /\ op = "sort_items"
    /\ spc = "done"
    /\ Len(sort_parts) = 2
    /\ C13_Faulty = {1}
    /\ sresult.err = "FieldNotFound"

C15_WitnessRaises ==
    /\ op = "sort_items"
    /\ spc = "done"
    /\ sresult.k = "raise"
    /\ items # items_in

\* C18: for a non-empty well-formed specification and a non-empty item sequence
\* in which some item lacks a listed field, sort_items fails with FieldNotFound
\* naming such a field (the rightmost listed one that an item lacks) and returns
\* no sequence; the missing field is not treated as a tie or given a default.
C18_WellFormed ==
    /\ sort_parts # <<>>
    /\ \A i \in 1..Len(sort_parts) :
           /\ sort_parts[i].key # <<>>
           /\ sort_parts[i].colon => sort_parts[i].direction \in {asc, desc}

C18_MissingFieldRaises ==
    (op = "sort_items" /\ spc = "done" /\ C18_WellFormed /\ C13_Lacking # {}) =>
        /\ sresult.k = "raise"
        /\ sresult.err = "FieldNotFound"
        /\ sresult.named = <<sort_parts[C13_Max(C13_Lacking)].key>>

C18_Witness ==
    /\ op = "sort_items"
    /\ spc = "done"
    /\ C18_WellFormed
    /\ Len(sort_parts) = 2
    /\ C13_Lacking = {1}
    /\ \E j \in 1..Len(items_in) : sort_parts[1].key \in DOMAIN items_in[j].f
    /\ sresult.err = "FieldNotFound"
    /\ sresult.named = <<sort_parts[1].key>>

====
